---- MODULE Spec2Model ----
(***************************************************************************)
(* SeriousClick (src/src/main.rs): the clicking engine.                    *)
(*                                                                         *)
(* Threads: the main control loop (eframe::App::update, one call per       *)
(* tick), the click worker spawned by start_clicker, the hotkey listener   *)
(* threads spawned by setup_hotkey, and the Ctrl-C handler.                *)
(* Shared data: Arc<Mutex<ClickerState>> (state, state_lock,               *)
(* state_poisoned), HOTKEY_COMMAND (the one-slot mailbox, cmd_lock) and    *)
(* HOTKEY_ACTIVE.                                                          *)
(*                                                                         *)
(* Option<T> is modelled as a sequence: <<>> is None, <<v>> is Some(v).    *)
(* Vec indices are 0-based as in the source; Vec v at index i is v[i + 1]. *)
(* An Instant is modelled by the event that took it: start_time is the     *)
(* parity of the start (two consecutive starts take different instants),   *)
(* last_click_time the pair <<start, click>>.                              *)
(***************************************************************************)
EXTENDS Integers, Sequences, FiniteSets

(***************************************************************************)
(* Bounds of the model.                                                    *)
(***************************************************************************)
MaxWorkers == 2     \* thread slots for click workers
MaxListeners == 1   \* hotkey listener threads that may be spawned
MaxClicks == 2      \* clicks counted in one run
MaxTriggers == 2    \* hotkey presses between two polls of the mailbox
MaxHotkeyListeners == 2 \* listener threads that may be spawned in HotkeySpec
MaxPolicyClicks == 4    \* clicks counted in one run of PolicySpec
MaxTime == 5            \* the last instant of the clock of TimedSpec
MaxEdits == 1           \* widget events of the edit form in ConfigSpec
MaxConfigClicks == 1    \* clicks counted in one run of ConfigSpec

Workers == 1..MaxWorkers
Listeners == 1..MaxListeners

(***************************************************************************)
(* Text: a String is a sequence of one-character strings.                  *)
(***************************************************************************)
Digits == <<"0", "1", "2", "3", "4", "5", "6", "7", "8", "9">>

RECURSIVE ToString(_)
\* u64::to_string: the decimal digits, most significant first.
ToString(n) ==
    IF n < 10 THEN <<Digits[n + 1]>>
    ELSE ToString(n \div 10) \o <<Digits[(n % 10) + 1]>>

RECURSIVE JoinComma(_)
\* .iter().map(|i| i.to_string()).collect::<Vec<_>>().join(",")
JoinComma(v) ==
    IF v = <<>> THEN <<>>
    ELSE IF Len(v) = 1 THEN ToString(v[1])
    ELSE ToString(v[1]) \o <<",">> \o JoinComma(Tail(v))

RECURSIVE SplitComma(_, _)
\* str::split(','): the pieces between commas; `cur` is the piece being read.
\* An empty text yields one empty piece.
SplitComma(text, cur) ==
    IF text = <<>> THEN <<cur>>
    ELSE IF Head(text) = "," THEN <<cur>> \o SplitComma(Tail(text), <<>>)
    ELSE SplitComma(Tail(text), Append(cur, Head(text)))

RECURSIVE TrimStart(_)
TrimStart(s) ==
    IF s # <<>> /\ Head(s) = " " THEN TrimStart(Tail(s)) ELSE s

RECURSIVE TrimEnd(_)
TrimEnd(s) ==
    IF s # <<>> /\ s[Len(s)] = " " THEN TrimEnd(SubSeq(s, 1, Len(s) - 1)) ELSE s

\* str::trim
Trim(s) == TrimEnd(TrimStart(s))

DigitValue(c) == CHOOSE d \in 0..9 : Digits[d + 1] = c

IsDigit(c) == \E d \in 0..9 : Digits[d + 1] = c

RECURSIVE DigitsValue(_, _)
DigitsValue(s, acc) ==
    IF s = <<>> THEN acc
    ELSE DigitsValue(Tail(s), acc * 10 + DigitValue(Head(s)))

\* str::parse::<u64>: an optional '+', then at least one digit and digits
\* only.  <<>> is Err, <<n>> is Ok(n).  (Values stay far below 2^64 here.)
ParseU64(s) ==
    LET body == IF s # <<>> /\ Head(s) = "+" THEN Tail(s) ELSE s IN
    IF body # <<>> /\ \A i \in 1..Len(body) : IsDigit(body[i])
    THEN <<DigitsValue(body, 0)>>
    ELSE <<>>

RECURSIVE ParseParts(_)
\* The loop of the Save handler: push every part that parses.
ParseParts(parts) ==
    IF parts = <<>> THEN <<>>
    ELSE ParseU64(Trim(Head(parts))) \o ParseParts(Tail(parts))

ParseIntervals(text) == ParseParts(SplitComma(text, <<>>))

(***************************************************************************)
(* ClickerConfig and ClickerState.                                         *)
(***************************************************************************)
ClickMode == {"FixedInterval", "RandomInterval", "Continuous", "Pattern"}

MouseButtonType == {"Left", "Right", "Middle"}

\* <ClickerConfig as Default>::default()
DefaultConfig ==
    [name |-> <<"Default">>,    \* "默认配置"
     click_mode |-> "FixedInterval",
     mouse_button |-> "Left",
     fixed_interval_ms |-> 100,
     min_random_interval_ms |-> 50,
     max_random_interval_ms |-> 200,
     pattern_intervals |-> <<100, 200, 300>>]

\* format!("Config {}", n)
ConfigName(n) == <<"Config", " ">> \o ToString(n)

\* ClickerState::from(&ClickerConfig)
StateFrom(config) ==
    [is_running |-> FALSE,
     click_mode |-> config.click_mode,
     mouse_button |-> config.mouse_button,
     fixed_interval_ms |-> config.fixed_interval_ms,
     min_random_interval_ms |-> config.min_random_interval_ms,
     max_random_interval_ms |-> config.max_random_interval_ms,
     pattern_intervals |-> config.pattern_intervals,
     click_count |-> 0,
     start_time |-> <<>>,
     last_click_time |-> <<>>]

\* The runtime configuration fields of a ClickerState or ClickerConfig.
RuntimeFields(r) ==
    <<r.click_mode, r.mouse_button, r.fixed_interval_ms,
      r.min_random_interval_ms, r.max_random_interval_ms, r.pattern_intervals>>

(***************************************************************************)
(* The persisted configuration file as the process finds it at startup.    *)
(***************************************************************************)
PatternConfig ==
    [name |-> <<"P">>,
     click_mode |-> "Pattern",
     mouse_button |-> "Left",
     fixed_interval_ms |-> 100,
     min_random_interval_ms |-> 50,
     max_random_interval_ms |-> 200,
     pattern_intervals |-> <<100, 200, 300>>]

ShortPatternConfig ==
    [name |-> <<"S">>,
     click_mode |-> "Pattern",
     mouse_button |-> "Left",
     fixed_interval_ms |-> 100,
     min_random_interval_ms |-> 50,
     max_random_interval_ms |-> 200,
     pattern_intervals |-> <<100>>]

EmptyPatternConfig ==
    [name |-> <<"E">>,
     click_mode |-> "Pattern",
     mouse_button |-> "Left",
     fixed_interval_ms |-> 100,
     min_random_interval_ms |-> 50,
     max_random_interval_ms |-> 200,
     pattern_intervals |-> <<>>]

\* A fixed interval of two units of the clock.
FastFixedConfig ==
    [name |-> <<"F">>,
     click_mode |-> "FixedInterval",
     mouse_button |-> "Left",
     fixed_interval_ms |-> 2,
     min_random_interval_ms |-> 50,
     max_random_interval_ms |-> 200,
     pattern_intervals |-> <<100, 200, 300>>]

RandomConfig ==
    [name |-> <<"R">>,
     click_mode |-> "RandomInterval",
     mouse_button |-> "Left",
     fixed_interval_ms |-> 100,
     min_random_interval_ms |-> 50,
     max_random_interval_ms |-> 51,
     pattern_intervals |-> <<100, 200, 300>>]

\* What get_config_dir() may point at: no file, a file that cannot be read or
\* parsed, or a file holding a list of records.
Files ==
    {[kind |-> "missing", configs |-> <<>>],
     [kind |-> "malformed", configs |-> <<>>],
     [kind |-> "list", configs |-> <<>>],
     [kind |-> "list", configs |-> <<PatternConfig, ShortPatternConfig>>],
     [kind |-> "list", configs |-> <<RandomConfig>>]}

\* SeriousClickerApp::load_configs: Result<Vec<ClickerConfig>, _>
load_configs(file) ==
    IF file.kind = "missing" THEN [ok |-> TRUE, v |-> <<DefaultConfig>>]
    ELSE IF file.kind = "malformed" THEN [ok |-> FALSE, v |-> <<>>]
    ELSE [ok |-> TRUE, v |-> file.configs]

(***************************************************************************)
(* State.                                                                  *)
(***************************************************************************)
VARIABLES
    proc,                   \* "running", "exited_menu", "exited_signal", "crashed"
    state,                  \* the ClickerState inside the Arc<Mutex<_>>
    state_lock,             \* owner of the ClickerState mutex
    state_poisoned,         \* a thread panicked while holding that mutex
    clicker_thread,         \* Option<JoinHandle>: <<>> or <<worker slot>>
    configs,
    selected_config_index,
    editing_config,
    is_editing,
    pattern_input,
    status_message,
    hotkey_active,          \* SeriousClickerApp.hotkey_active
    HOTKEY_ACTIVE,          \* the static
    HOTKEY_COMMAND,         \* the static mailbox: <<>> or <<TRUE>>
    cmd_lock,               \* owner of the HOTKEY_COMMAND mutex
    main_pc,                \* where the main thread is inside update()
    join_handle,            \* the handle stop_clicker took and is joining
    worker,                 \* per slot: the worker thread's position and locals
    listener,               \* per slot: the listener thread's position
    pending,                \* history: presses written to the mailbox since it was last cleared
    tick,                   \* history: what the current tick of update() has done
    now,                    \* the clock: <<>> where time is not observed, or <<ms>>
    run                     \* history: the clicks emitted

vars ==
    <<proc, state, state_lock, state_poisoned, clicker_thread, configs,
      selected_config_index, editing_config, is_editing, pattern_input,
      status_message, hotkey_active, HOTKEY_ACTIVE, HOTKEY_COMMAND, cmd_lock,
      main_pc, join_handle, worker, listener, pending, tick, now, run>>

\* Lock owners.
NoOwner == [kind |-> "none", id |-> 0]
MainOwner == [kind |-> "main", id |-> 0]
WorkerOwner(w) == [kind |-> "worker", id |-> w]
ListenerOwner(l) == [kind |-> "listener", id |-> l]

\* A worker thread that does not exist (yet).
NoWorker ==
    [pc |-> "none", pattern_index |-> 0, delay |-> 0, button |-> "Left",
     mode |-> "FixedInterval", pattern |-> <<>>, wake_at |-> <<>>]

\* The thread at the start of the closure given to thread::spawn.
SpawnedWorker == [NoWorker EXCEPT !.pc = "top"]

\* pressed_active (history): HOTKEY_ACTIVE when the press being handled occurred;
\* pressed_in_join (history): the main thread was then inside the poll, joining
\* the worker with the mailbox mutex held.
NoListener == [pc |-> "none", pressed_active |-> FALSE, pressed_in_join |-> FALSE]

DeadPc == {"none", "exited", "panicked"}

Alive(w) == worker[w].pc \notin DeadPc

AliveWorkers == {w \in Workers : Alive(w)}

\* hotkey: the poll of this tick called toggle_clicker; triggers and from_active:
\* the presses it consumed; ui: the start or toggle call the widgets then made;
\* ("save" for the Save button of the edit form);
\* ran_before: is_running when that call was made; transitions: changes of
\* is_running in this tick.  Any other event starts the record afresh.
NewTick ==
    [hotkey |-> FALSE, triggers |-> 0, from_active |-> FALSE, ui |-> "none",
     ran_before |-> FALSE, transitions |-> 0]

\* n: presses written since the poll last consumed a command; active: one of
\* them was pressed while HOTKEY_ACTIVE was true.
NoPending == [n |-> 0, active |-> FALSE]

\* form: the button that last opened the edit form ("new", "edit");
\* edits: widget events of the edit form so far;
\* emitted: clicks emitted since the most recent start; stable: the runtime
\* fields of ClickerState are those the run started with.  Where the clock is
\* observed: last: when the last click was emitted; need: the delay the worker
\* then sleeps if the click was made in FixedInterval mode (0 otherwise); gap,
\* gap_need: the time between the last two clicks and the `need` of the
\* earlier one.  late_clicks, late_counts: clicks emitted and clicks counted
\* while is_running was false, since stop_clicker last set it to false.
NoRun ==
    [form |-> "none", edits |-> 0, emitted |-> 0, stable |-> TRUE, last |-> <<>>, need |-> 0,
     gap |-> <<>>, gap_need |-> 0, late_clicks |-> 0, late_counts |-> 0]

\* SeriousClickerApp::new for the file found; `slots` are the listener thread
\* slots and `clock` the clock of the specification.
Startup(file, slots, clock) ==
        LET loaded == load_configs(file)
            cfgs == IF loaded.ok THEN loaded.v ELSE <<DefaultConfig>>
            default_config == IF cfgs # <<>> THEN cfgs[1] ELSE DefaultConfig
        IN  /\ configs = cfgs
            /\ state = StateFrom(default_config)
            /\ pattern_input = JoinComma(default_config.pattern_intervals)
            /\ editing_config = default_config
            /\ clicker_thread = <<>>
            /\ selected_config_index = 0
            /\ is_editing = FALSE
            /\ status_message = "ready"
            /\ hotkey_active = FALSE
            /\ HOTKEY_ACTIVE = FALSE
            /\ HOTKEY_COMMAND = <<>>
            /\ proc = "running"
            /\ state_lock = NoOwner
            /\ state_poisoned = FALSE
            /\ cmd_lock = NoOwner
            /\ main_pc = "poll"
            /\ join_handle = <<>>
            /\ worker = [w \in Workers |-> NoWorker]
            /\ listener = [l \in slots |-> NoListener]
            /\ pending = NoPending
            /\ tick = NewTick
            /\ now = clock
            /\ run = NoRun

Init == \E file \in Files : Startup(file, Listeners, <<>>)

(***************************************************************************)
(* Lifecycle: start_clicker, stop_clicker, toggle_clicker.  Each is the    *)
(* body of the method up to the point where it returns or blocks in join;  *)
(* the caller decides where the main thread goes next.  A critical section *)
(* of the ClickerState mutex never blocks inside, so each is one step; the *)
(* step leaves state_lock as the section leaves the mutex.                 *)
(***************************************************************************)
\* Some(Instant::now()) at a start, given the previous start_time.
Now(previous) == IF previous = <<>> THEN <<0>> ELSE <<1 - previous[1]>>

\* The slot the next spawned worker thread takes.
FreeSlots == {w \in Workers : ~Alive(w)}

\* start_clicker without the early return at lines 252-254.
start_clicker_unguarded ==
    /\ FreeSlots # {}
    /\ state' = [state EXCEPT !.is_running = TRUE,
                              !.start_time = Now(state.start_time),
                              !.click_count = 0]
    /\ status_message' = "started"
    /\ run' = [run EXCEPT !.emitted = 0, !.stable = TRUE,
                          !.late_clicks = 0, !.late_counts = 0]
    /\ LET w == CHOOSE x \in FreeSlots : \A y \in FreeSlots : x <= y
       IN  /\ worker' = [worker EXCEPT ![w] = SpawnedWorker]
           /\ clicker_thread' = <<w>>

\* start_clicker with the early return placed after the reset (after line 258).
start_clicker_late_return ==
    IF state.is_running
    THEN /\ state' = [state EXCEPT !.start_time = Now(state.start_time),
                                   !.click_count = 0]
         /\ UNCHANGED <<status_message, clicker_thread, worker, run>>
    ELSE /\ FreeSlots # {}
         /\ state' = [state EXCEPT !.is_running = TRUE,
                                   !.start_time = Now(state.start_time),
                                   !.click_count = 0]
         /\ status_message' = "started"
         /\ run' = [run EXCEPT !.emitted = 0, !.stable = TRUE,
                               !.late_clicks = 0, !.late_counts = 0]
         /\ LET w == CHOOSE x \in FreeSlots : \A y \in FreeSlots : x <= y
            IN  /\ worker' = [worker EXCEPT ![w] = SpawnedWorker]
                /\ clicker_thread' = <<w>>

\* start_clicker without `state.click_count = 0` (line 258).
start_clicker_keeps_count ==
    IF state.is_running
    THEN UNCHANGED <<state, status_message, clicker_thread, worker, run>>
    ELSE /\ FreeSlots # {}
         /\ state' = [state EXCEPT !.is_running = TRUE,
                                   !.start_time = Now(state.start_time)]
         /\ status_message' = "started"
         /\ run' = [run EXCEPT !.emitted = 0, !.stable = TRUE,
                               !.late_clicks = 0, !.late_counts = 0]
         /\ LET w == CHOOSE x \in FreeSlots : \A y \in FreeSlots : x <= y
            IN  /\ worker' = [worker EXCEPT ![w] = SpawnedWorker]
                /\ clicker_thread' = <<w>>

start_clicker ==
    IF state.is_running
    THEN UNCHANGED <<state, status_message, clicker_thread, worker, run>>
    ELSE /\ FreeSlots # {}
         /\ state' = [state EXCEPT !.is_running = TRUE,
                                   !.start_time = Now(state.start_time),
                                   !.click_count = 0]
         /\ status_message' = "started"
         /\ run' = [run EXCEPT !.emitted = 0, !.stable = TRUE,
                               !.late_clicks = 0, !.late_counts = 0]
         /\ LET w == CHOOSE x \in FreeSlots : \A y \in FreeSlots : x <= y
            IN  /\ worker' = [worker EXCEPT ![w] = SpawnedWorker]
                /\ clicker_thread' = <<w>>

\* stop_clicker that drops the handle instead of joining it (lines 332-335).
stop_clicker_detach ==
    IF ~state.is_running
    THEN UNCHANGED <<state, status_message, clicker_thread, join_handle, run>>
    ELSE /\ state' = [state EXCEPT !.is_running = FALSE]
         /\ status_message' = "stopped"
         /\ run' = [run EXCEPT !.late_clicks = 0, !.late_counts = 0]
         /\ join_handle' = <<>>
         /\ clicker_thread' = <<>>

stop_clicker ==
    IF ~state.is_running
    THEN UNCHANGED <<state, status_message, clicker_thread, join_handle, run>>
    ELSE /\ state' = [state EXCEPT !.is_running = FALSE]
         /\ status_message' = "stopped"
         /\ run' = [run EXCEPT !.late_clicks = 0, !.late_counts = 0]
         /\ join_handle' = clicker_thread      \* self.clicker_thread.take()
         /\ clicker_thread' = <<>>

toggle_clicker ==
    IF state.is_running
    THEN stop_clicker /\ UNCHANGED worker
    ELSE start_clicker /\ UNCHANGED join_handle

\* The ClickerState mutex can be taken by the main thread and is not poisoned.
MainCanLock == state_lock = NoOwner /\ ~state_poisoned

\* Number of is_running transitions a step makes.
Flipped == IF state'.is_running # state.is_running THEN 1 ELSE 0

configVars == <<configs, selected_config_index, editing_config, is_editing, pattern_input>>
hotkeyVars == <<hotkey_active, HOTKEY_ACTIVE, listener>>
mailboxVars == <<HOTKEY_COMMAND, cmd_lock, pending>>
lockVars == <<state_lock, state_poisoned>>

\* handle.join() returns once the joined thread has ended (normally or by panic).
Joined == join_handle # <<>> /\ ~Alive(join_handle[1])

(***************************************************************************)
(* update(): the mailbox poll (lines 399-407), then get_status_text.       *)
(***************************************************************************)
\* The poll finds the mailbox empty.
PollEmpty ==
    /\ proc = "running" /\ main_pc = "poll"
    /\ cmd_lock = NoOwner
    /\ HOTKEY_COMMAND = <<>>
    /\ MainCanLock
    /\ main_pc' = "ui"
    /\ tick' = NewTick
    /\ UNCHANGED <<proc, state, lockVars, clicker_thread, configVars, status_message,
                   hotkeyVars, mailboxVars, join_handle, worker>>
    /\ UNCHANGED <<now, run>>

\* The poll without `*command = None` at line 405.
PollToggle_keeps_command ==
    /\ proc = "running" /\ main_pc = "poll"
    /\ cmd_lock = NoOwner
    /\ HOTKEY_COMMAND # <<>>
    /\ MainCanLock
    /\ toggle_clicker
    /\ tick' = [NewTick EXCEPT !.hotkey = TRUE,
                               !.triggers = pending.n,
                               !.from_active = pending.active,
                               !.transitions = Flipped]
    /\ pending' = NoPending
    /\ IF join_handle' # <<>>
       THEN /\ main_pc' = "poll_join"
            /\ cmd_lock' = MainOwner
       ELSE /\ main_pc' = "ui"
            /\ cmd_lock' = NoOwner
    /\ UNCHANGED HOTKEY_COMMAND
    /\ UNCHANGED <<proc, lockVars, configVars, hotkeyVars>>
    /\ UNCHANGED now

\* The poll that gives up the mailbox mutex before it calls toggle_clicker.
PollToggle_unlocked ==
    /\ proc = "running" /\ main_pc = "poll"
    /\ cmd_lock = NoOwner
    /\ HOTKEY_COMMAND # <<>>
    /\ MainCanLock
    /\ toggle_clicker
    /\ tick' = [NewTick EXCEPT !.hotkey = TRUE,
                               !.triggers = pending.n,
                               !.from_active = pending.active,
                               !.transitions = Flipped]
    /\ pending' = NoPending
    /\ IF join_handle' # <<>>
       THEN /\ main_pc' = "poll_join"
            /\ UNCHANGED HOTKEY_COMMAND
       ELSE /\ main_pc' = "ui"
            /\ HOTKEY_COMMAND' = <<>>
    /\ cmd_lock' = NoOwner
    /\ UNCHANGED <<proc, lockVars, configVars, hotkeyVars>>
    /\ UNCHANGED now

\* The poll with a stop_clicker that does not drop(state) (line 328) before it
\* joins the worker.
PollToggle_joins_locked ==
    /\ proc = "running" /\ main_pc = "poll"
    /\ cmd_lock = NoOwner
    /\ HOTKEY_COMMAND # <<>>
    /\ MainCanLock
    /\ toggle_clicker
    /\ tick' = [NewTick EXCEPT !.hotkey = TRUE,
                               !.triggers = pending.n,
                               !.from_active = pending.active,
                               !.transitions = Flipped]
    /\ pending' = NoPending
    /\ IF join_handle' # <<>>
       THEN /\ main_pc' = "poll_join"
            /\ cmd_lock' = MainOwner
            /\ state_lock' = MainOwner
            /\ UNCHANGED HOTKEY_COMMAND
       ELSE /\ main_pc' = "ui"
            /\ HOTKEY_COMMAND' = <<>>
            /\ cmd_lock' = NoOwner
            /\ UNCHANGED state_lock
    /\ UNCHANGED <<proc, state_poisoned, configVars, hotkeyVars>>
    /\ UNCHANGED now

\* The poll finds a command: toggle_clicker under the mailbox lock, then the
\* command is reset, unless stop_clicker blocks in join first.
PollToggle ==
    /\ proc = "running" /\ main_pc = "poll"
    /\ cmd_lock = NoOwner
    /\ HOTKEY_COMMAND # <<>>
    /\ MainCanLock
    /\ toggle_clicker
    /\ tick' = [NewTick EXCEPT !.hotkey = TRUE,
                               !.triggers = pending.n,
                               !.from_active = pending.active,
                               !.transitions = Flipped]
    /\ pending' = NoPending
    /\ IF join_handle' # <<>>
       THEN /\ main_pc' = "poll_join"
            /\ cmd_lock' = MainOwner
            /\ UNCHANGED HOTKEY_COMMAND
       ELSE /\ main_pc' = "ui"
            /\ HOTKEY_COMMAND' = <<>>
            /\ cmd_lock' = NoOwner
    /\ UNCHANGED <<proc, lockVars, configVars, hotkeyVars>>
    /\ UNCHANGED now

PollJoinDone ==
    /\ proc = "running" /\ main_pc = "poll_join"
    /\ Joined
    /\ MainCanLock
    /\ join_handle' = <<>>
    /\ HOTKEY_COMMAND' = <<>>
    /\ cmd_lock' = NoOwner
    /\ main_pc' = "ui"
    /\ UNCHANGED <<proc, state, lockVars, clicker_thread, configVars, status_message,
                   hotkeyVars, pending, worker, tick>>
    /\ UNCHANGED <<now, run>>

\* state.lock().unwrap() on a poisoned mutex panics (toggle_clicker,
\* get_status_text, the button label); a panic of the main thread ends the
\* process.
MainPanic ==
    /\ proc = "running"
    /\ \/ main_pc \in {"poll", "ui"} /\ cmd_lock = NoOwner
       \/ main_pc = "poll_join" /\ Joined
    /\ state_lock = NoOwner /\ state_poisoned
    /\ proc' = "crashed"
    /\ UNCHANGED <<state, lockVars, clicker_thread, configVars, status_message,
                   hotkeyVars, mailboxVars, main_pc, join_handle, worker, tick>>
    /\ UNCHANGED <<now, run>>

(***************************************************************************)
(* The click worker: the closure of start_clicker, lines 265-318.          *)
(***************************************************************************)
\* The delay computation without the is_empty() test of line 287.
DelayPanics_no_empty_test(w) ==
    \/ /\ state.click_mode = "Pattern"
       /\ worker[w].pattern_index >= Len(state.pattern_intervals)
    \/ /\ state.click_mode = "RandomInterval"
       /\ state.min_random_interval_ms > state.max_random_interval_ms

\* The delay computation panics: the index is out of bounds (line 290) or the
\* range given to gen_range is empty (line 283).
DelayPanics(w) ==
    \/ /\ state.click_mode = "Pattern"
       /\ state.pattern_intervals # <<>>
       /\ worker[w].pattern_index >= Len(state.pattern_intervals)
    \/ /\ state.click_mode = "RandomInterval"
       /\ state.min_random_interval_ms > state.max_random_interval_ms

\* The match with an upper end of the random range one too high (line 283).
Delays_past_max(w) ==
    CASE state.click_mode = "FixedInterval" -> {state.fixed_interval_ms}
      [] state.click_mode = "RandomInterval" ->
            state.min_random_interval_ms .. (state.max_random_interval_ms + 1)
      [] state.click_mode = "Continuous" -> {1}
      [] state.click_mode = "Pattern" ->
            IF state.pattern_intervals = <<>> THEN {100}
            ELSE {state.pattern_intervals[worker[w].pattern_index + 1]}

\* The delays the match at lines 279-293 can produce.
Delays(w) ==
    CASE state.click_mode = "FixedInterval" -> {state.fixed_interval_ms}
      [] state.click_mode = "RandomInterval" ->
            state.min_random_interval_ms .. state.max_random_interval_ms
      [] state.click_mode = "Continuous" -> {1}
      [] state.click_mode = "Pattern" ->
            IF state.pattern_intervals = <<>> THEN {100}
            ELSE {state.pattern_intervals[worker[w].pattern_index + 1]}

\* A worker thread that has ended; its locals are gone.
Ended(how) == [NoWorker EXCEPT !.pc = how]

workerFrame ==
    <<proc, clicker_thread, configVars, status_message, hotkeyVars, mailboxVars,
      main_pc, join_handle, tick, now>>

\* The worker loop with `continue` for `break` at line 273, after a pause.
WorkerCheck_no_break(w) ==
    /\ proc = "running" /\ worker[w].pc = "top"
    /\ state_lock = NoOwner
    /\ state.is_running => state.click_count < MaxClicks
    /\ IF state_poisoned
       THEN /\ worker' = [worker EXCEPT ![w] = Ended("panicked")]
            /\ UNCHANGED state_poisoned
       ELSE IF ~state.is_running
       THEN /\ worker' = [worker EXCEPT ![w].pc = "sleep"]
            /\ UNCHANGED state_poisoned
       ELSE IF DelayPanics(w)
       THEN /\ worker' = [worker EXCEPT ![w] = Ended("panicked")]
            /\ state_poisoned' = TRUE
       ELSE /\ \E d \in Delays(w) :
                worker' = [worker EXCEPT ![w].pc = "click",
                                         ![w].delay = d,
                                         ![w].button = state.mouse_button,
                                         ![w].mode = state.click_mode,
                                         ![w].pattern = state.pattern_intervals]
            /\ UNCHANGED state_poisoned
    /\ state_lock' = NoOwner
    /\ UNCHANGED state
    /\ UNCHANGED workerFrame
    /\ UNCHANGED run

\* The top of the loop without the is_running test of lines 272-274.
WorkerTop_no_check(w) ==
    /\ proc = "running" /\ worker[w].pc = "top"
    /\ state_lock = NoOwner
    /\ IF state_poisoned
       THEN /\ worker' = [worker EXCEPT ![w] = Ended("panicked")]
            /\ UNCHANGED state_poisoned
       ELSE IF DelayPanics(w)
       THEN /\ worker' = [worker EXCEPT ![w] = Ended("panicked")]
            /\ state_poisoned' = TRUE
       ELSE /\ \E d \in Delays(w) :
                worker' = [worker EXCEPT ![w].pc = "click",
                                         ![w].delay = d,
                                         ![w].button = state.mouse_button,
                                         ![w].mode = state.click_mode,
                                         ![w].pattern = state.pattern_intervals]
            /\ UNCHANGED state_poisoned
    /\ state_lock' = NoOwner
    /\ UNCHANGED state
    /\ UNCHANGED workerFrame
    /\ UNCHANGED run

\* Lines 270-297: lock, check is_running, take the snapshot, unlock.
WorkerTop(w) ==
    /\ proc = "running" /\ worker[w].pc = "top"
    /\ state_lock = NoOwner
    /\ IF state_poisoned
       THEN /\ worker' = [worker EXCEPT ![w] = Ended("panicked")]
            /\ UNCHANGED state_poisoned
       ELSE IF ~state.is_running
       THEN /\ worker' = [worker EXCEPT ![w] = Ended("exited")]
            /\ UNCHANGED state_poisoned
       ELSE IF DelayPanics(w)
       THEN /\ worker' = [worker EXCEPT ![w] = Ended("panicked")]
            /\ state_poisoned' = TRUE
       ELSE /\ \E d \in Delays(w) :
                worker' = [worker EXCEPT ![w].pc = "click",
                                         ![w].delay = d,
                                         ![w].button = state.mouse_button,
                                         ![w].mode = state.click_mode,
                                         ![w].pattern = state.pattern_intervals]
            /\ UNCHANGED state_poisoned
    /\ state_lock' = NoOwner
    /\ UNCHANGED state
    /\ UNCHANGED workerFrame
    /\ UNCHANGED run

\* The top of the loop while the run has not counted MaxClicks clicks.
WorkerCheck(w) ==
    /\ state.is_running => state.click_count < MaxClicks
    /\ WorkerTop(w)

\* enigo.mouse_click(button) at line 301; it returns nothing.
WorkerClick(w) ==
    /\ proc = "running" /\ worker[w].pc = "click"
    /\ worker' = [worker EXCEPT ![w].pc = "count"]
    /\ run' = [run EXCEPT
            !.emitted = @ + 1,
            !.late_clicks = IF state.is_running THEN @ ELSE @ + 1,
            !.last = now,
            !.need = IF now # <<>> /\ worker[w].mode = "FixedInterval"
                     THEN worker[w].delay ELSE 0,
            !.gap = IF now = <<>> \/ run.last = <<>> THEN <<>>
                    ELSE <<now[1] - run.last[1]>>,
            !.gap_need = run.need]
    /\ UNCHANGED <<state, lockVars>>
    /\ UNCHANGED workerFrame

\* The count without the cursor advance of lines 310-312.
WorkerCount_no_advance(w) ==
    /\ proc = "running" /\ worker[w].pc = "count"
    /\ state_lock = NoOwner
    /\ IF state_poisoned
       THEN /\ worker' = [worker EXCEPT ![w] = Ended("panicked")]
            /\ UNCHANGED <<state, run>>
       ELSE /\ run' = [run EXCEPT
                    !.late_counts = IF state.is_running THEN @ ELSE @ + 1]
            /\ state' = [state EXCEPT
                    !.click_count = @ + 1,
                    !.last_click_time = <<state.start_time[1], state.click_count + 1>>]
            /\ worker' = [worker EXCEPT
                    ![w].pc = "sleep",
                    ![w].wake_at = IF now = <<>> THEN <<>>
                                   ELSE <<now[1] + worker[w].delay>>]
    /\ state_lock' = NoOwner
    /\ UNCHANGED state_poisoned
    /\ UNCHANGED workerFrame

\* Lines 304-312: lock, count the click, unlock, advance the cursor.
WorkerCount(w) ==
    /\ proc = "running" /\ worker[w].pc = "count"
    /\ state_lock = NoOwner
    /\ IF state_poisoned
       THEN /\ worker' = [worker EXCEPT ![w] = Ended("panicked")]
            /\ UNCHANGED <<state, run>>
       ELSE /\ run' = [run EXCEPT
                    !.late_counts = IF state.is_running THEN @ ELSE @ + 1]
            /\ state' = [state EXCEPT
                    !.click_count = @ + 1,
                    !.last_click_time = <<state.start_time[1], state.click_count + 1>>]
            /\ worker' = [worker EXCEPT
                    ![w].pc = "sleep",
                    ![w].wake_at = IF now = <<>> THEN <<>>
                                   ELSE <<now[1] + worker[w].delay>>,
                    ![w].pattern_index =
                        IF worker[w].mode = "Pattern" /\ worker[w].pattern # <<>>
                        THEN (@ + 1) % Len(worker[w].pattern)
                        ELSE @]
    /\ state_lock' = NoOwner
    /\ UNCHANGED state_poisoned
    /\ UNCHANGED workerFrame

\* thread::sleep(delay) at line 315 returns; the locals of the iteration end
\* with it, pattern_index lives on.
WorkerWake(w) ==
    /\ proc = "running" /\ worker[w].pc = "sleep"
    /\ worker' = [worker EXCEPT
            ![w] = [SpawnedWorker EXCEPT !.pattern_index = worker[w].pattern_index]]
    /\ UNCHANGED <<state, lockVars>>
    /\ UNCHANGED workerFrame
    /\ UNCHANGED run

(***************************************************************************)
(* update(): the widgets.  One input event is handled per tick; the tick   *)
(* then ends, or blocks in the join of stop_clicker.                       *)
(***************************************************************************)
UiReady == proc = "running" /\ main_pc = "ui" /\ MainCanLock

\* Record a start or toggle call made by the widgets.
Call(name) ==
    tick' = [tick EXCEPT !.ui = name,
                         !.ran_before = state.is_running,
                         !.transitions = @ + Flipped]

\* A frame in which no widget is clicked.
NoInput ==
    /\ UiReady
    /\ main_pc' = "poll"
    /\ tick' = NewTick
    /\ UNCHANGED <<proc, state, lockVars, clicker_thread, configVars, status_message,
                   hotkeyVars, mailboxVars, join_handle, worker>>
    /\ UNCHANGED <<now, run>>

\* The start/stop button, lines 482-487.
ClickToggle ==
    /\ UiReady
    /\ toggle_clicker
    /\ Call("toggle")
    /\ main_pc' = IF join_handle' # <<>> THEN "ui_join" ELSE "poll"
    /\ UNCHANGED <<proc, lockVars, configVars, hotkeyVars, mailboxVars>>
    /\ UNCHANGED now

\* start() of the control surface: a direct call of start_clicker.
ControlStart ==
    /\ UiReady
    /\ start_clicker
    /\ Call("start")
    /\ main_pc' = "poll"
    /\ UNCHANGED <<proc, lockVars, configVars, hotkeyVars, mailboxVars, join_handle>>
    /\ UNCHANGED now

\* stop() of the control surface: a direct call of stop_clicker.
ControlStop ==
    /\ UiReady
    /\ stop_clicker
    /\ tick' = NewTick
    /\ main_pc' = IF join_handle' # <<>> THEN "ui_join" ELSE "poll"
    /\ UNCHANGED <<proc, lockVars, configVars, hotkeyVars, mailboxVars, worker>>
    /\ UNCHANGED now

UiJoinDone ==
    /\ proc = "running" /\ main_pc = "ui_join"
    /\ Joined
    /\ join_handle' = <<>>
    /\ main_pc' = "poll"
    /\ UNCHANGED <<proc, state, lockVars, clicker_thread, configVars, status_message,
                   hotkeyVars, mailboxVars, worker, tick>>
    /\ UNCHANGED <<now, run>>

\* The Exit menu entry, lines 432-435: stop_clicker, then process::exit(0).
MenuExit ==
    /\ UiReady
    /\ stop_clicker
    /\ tick' = NewTick
    /\ IF join_handle' # <<>>
       THEN main_pc' = "exit_join" /\ UNCHANGED proc
       ELSE proc' = "exited_menu" /\ UNCHANGED main_pc
    /\ UNCHANGED <<lockVars, configVars, hotkeyVars, mailboxVars, worker>>
    /\ UNCHANGED now

ExitJoinDone ==
    /\ proc = "running" /\ main_pc = "exit_join"
    /\ Joined
    /\ join_handle' = <<>>
    /\ proc' = "exited_menu"
    /\ UNCHANGED <<state, lockVars, clicker_thread, configVars, status_message,
                   hotkeyVars, mailboxVars, main_pc, worker, tick>>
    /\ UNCHANGED <<now, run>>

\* setup_hotkey, lines 338-372.  It always returns Ok(()).
setup_hotkey ==
    IF hotkey_active
    THEN UNCHANGED <<HOTKEY_ACTIVE, listener, hotkey_active, status_message>>
    ELSE /\ \E l \in DOMAIN listener :
                /\ listener[l].pc = "none"
                /\ \A k \in DOMAIN listener : k < l => listener[k].pc # "none"
                /\ listener' = [listener EXCEPT ![l].pc = "spawned"]
         /\ HOTKEY_ACTIVE' = TRUE
         /\ hotkey_active' = TRUE
         /\ status_message' = "hotkey active"

\* The entry of the hotkey menu, lines 438-453.
MenuHotkey ==
    /\ UiReady
    /\ IF hotkey_active
       THEN /\ HOTKEY_ACTIVE' = FALSE
            /\ hotkey_active' = FALSE
            /\ status_message' = "hotkey disabled"
            /\ UNCHANGED listener
       ELSE setup_hotkey
    /\ main_pc' = "poll"
    /\ tick' = NewTick
    /\ UNCHANGED <<proc, state, lockVars, clicker_thread, configVars, mailboxVars,
                   join_handle, worker>>
    /\ UNCHANGED <<now, run>>

(***************************************************************************)
(* Configurations: apply_config and the widgets that reach it.             *)
(***************************************************************************)
\* apply_config without the assignment of line 227.
apply_config_keeps_max(config) ==
    /\ state' = [state EXCEPT
            !.click_mode = config.click_mode,
            !.mouse_button = config.mouse_button,
            !.fixed_interval_ms = config.fixed_interval_ms,
            !.min_random_interval_ms = config.min_random_interval_ms,
            !.pattern_intervals = config.pattern_intervals]
    /\ pattern_input' = JoinComma(config.pattern_intervals)
    /\ run' = [run EXCEPT !.stable =
                    @ /\ (state.is_running => RuntimeFields(config) = RuntimeFields(state))]

\* apply_config, lines 221-235.
apply_config(config) ==
    /\ state' = [state EXCEPT
            !.click_mode = config.click_mode,
            !.mouse_button = config.mouse_button,
            !.fixed_interval_ms = config.fixed_interval_ms,
            !.min_random_interval_ms = config.min_random_interval_ms,
            !.max_random_interval_ms = config.max_random_interval_ms,
            !.pattern_intervals = config.pattern_intervals]
    /\ pattern_input' = JoinComma(config.pattern_intervals)
    /\ run' = [run EXCEPT !.stable =
                    @ /\ (state.is_running => RuntimeFields(config) = RuntimeFields(state))]

\* Vec::remove(i)
Remove(v, i) == SubSeq(v, 1, i) \o SubSeq(v, i + 2, Len(v))

Min(a, b) == IF a <= b THEN a ELSE b

uiFrame ==
    <<proc, lockVars, clicker_thread, status_message, hotkeyVars, mailboxVars,
      join_handle, worker, now>>

\* An entry of the configuration combo box, lines 497-508.
SelectConfig(i) ==
    /\ UiReady
    /\ i < Len(configs)
    /\ selected_config_index' = i
    /\ apply_config(configs[i + 1])
    /\ tick' = NewTick
    /\ main_pc' = "poll"
    /\ UNCHANGED <<configs, editing_config, is_editing>>
    /\ UNCHANGED uiFrame

\* The New button, lines 510-514.
ClickNew ==
    /\ UiReady
    /\ editing_config' = [DefaultConfig EXCEPT !.name = ConfigName(Len(configs) + 1)]
    /\ is_editing' = TRUE
    /\ tick' = NewTick
    /\ main_pc' = "poll"
    /\ UNCHANGED <<state, configs, selected_config_index, pattern_input>>
    /\ UNCHANGED uiFrame
    /\ run' = [run EXCEPT !.form = "new"]

\* The Edit button, lines 516-520.
ClickEdit ==
    /\ UiReady
    /\ configs # <<>>
    /\ editing_config' = configs[selected_config_index + 1]
    /\ is_editing' = TRUE
    /\ tick' = NewTick
    /\ main_pc' = "poll"
    /\ UNCHANGED <<state, configs, selected_config_index, pattern_input>>
    /\ UNCHANGED uiFrame
    /\ run' = [run EXCEPT !.form = "edit"]

\* The Delete button, lines 522-530.
ClickDelete ==
    /\ UiReady
    /\ configs # <<>>
    /\ LET removed == Remove(configs, selected_config_index)
           kept == IF removed = <<>> THEN <<DefaultConfig>> ELSE removed
           index == Min(selected_config_index, Len(kept) - 1)
       IN  /\ configs' = kept
           /\ selected_config_index' = index
           /\ apply_config(kept[index + 1])
    /\ tick' = NewTick
    /\ main_pc' = "poll"
    /\ UNCHANGED <<editing_config, is_editing>>
    /\ UNCHANGED uiFrame

\* The Save button of the edit form, lines 652-681.
ClickSave ==
    /\ UiReady
    /\ is_editing
    /\ LET intervals == ParseIntervals(pattern_input)
           edited ==
               IF editing_config.click_mode = "Pattern" /\ intervals # <<>>
               THEN [editing_config EXCEPT !.pattern_intervals = intervals]
               ELSE editing_config
       IN  /\ editing_config' = edited
           /\ IF selected_config_index < Len(configs)
              THEN /\ configs' = [configs EXCEPT ![selected_config_index + 1] = edited]
                   /\ UNCHANGED selected_config_index
              ELSE /\ configs' = Append(configs, edited)
                   /\ selected_config_index' = Len(configs)
           /\ apply_config(edited)
    /\ is_editing' = FALSE
    /\ tick' = [NewTick EXCEPT !.ui = "save", !.ran_before = state.is_running]
    /\ main_pc' = "poll"
    /\ UNCHANGED uiFrame

\* The Cancel button of the edit form, lines 683-685.
ClickCancel ==
    /\ UiReady
    /\ is_editing
    /\ is_editing' = FALSE
    /\ tick' = NewTick
    /\ main_pc' = "poll"
    /\ UNCHANGED <<state, configs, selected_config_index, editing_config, pattern_input>>
    /\ UNCHANGED uiFrame
    /\ UNCHANGED run

(***************************************************************************)
(* The widgets of the edit form, lines 583-646, shown while is_editing.    *)
(* Each is one input event with a value from a small set.                  *)
(***************************************************************************)
NameChoices == {<<"N">>}
ButtonChoices == {"Right"}
FixedChoices == {250}
MinChoices == {300}
MaxChoices == {40, 1000}
PatternTexts == {<<"x">>, <<"7", ",", " ", "x", ",", "9", " ">>}

formFrame == <<state, configs, selected_config_index, is_editing>>

\* One more widget event of the edit form, up to MaxEdits of them.
CountEdit ==
    /\ run.edits < MaxEdits
    /\ run' = [run EXCEPT !.edits = @ + 1]

\* The name field, lines 588-591.
EditName(name) ==
    /\ UiReady /\ is_editing
    /\ editing_config' = [editing_config EXCEPT !.name = name]
    /\ CountEdit
    /\ tick' = NewTick
    /\ main_pc' = "poll"
    /\ UNCHANGED pattern_input
    /\ UNCHANGED formFrame
    /\ UNCHANGED uiFrame

\* The click mode combo box, lines 595-604.
EditMode(mode) ==
    /\ UiReady /\ is_editing
    /\ editing_config' = [editing_config EXCEPT !.click_mode = mode]
    /\ CountEdit
    /\ tick' = NewTick
    /\ main_pc' = "poll"
    /\ UNCHANGED pattern_input
    /\ UNCHANGED formFrame
    /\ UNCHANGED uiFrame

\* The mouse button combo box, lines 608-617.
EditButton(button) ==
    /\ UiReady /\ is_editing
    /\ editing_config' = [editing_config EXCEPT !.mouse_button = button]
    /\ CountEdit
    /\ tick' = NewTick
    /\ main_pc' = "poll"
    /\ UNCHANGED pattern_input
    /\ UNCHANGED formFrame
    /\ UNCHANGED uiFrame

\* The interval slider of FixedInterval mode, range 1..=1000, lines 623-628.
EditFixed(v) ==
    /\ UiReady /\ is_editing
    /\ editing_config.click_mode = "FixedInterval"
    /\ 1 <= v /\ v <= 1000
    /\ editing_config' = [editing_config EXCEPT !.fixed_interval_ms = v]
    /\ CountEdit
    /\ tick' = NewTick
    /\ main_pc' = "poll"
    /\ UNCHANGED pattern_input
    /\ UNCHANGED formFrame
    /\ UNCHANGED uiFrame

\* The min slider of RandomInterval mode, range 1..=500, lines 630-633.  The
\* max slider drawn after it has the range min..=1000 (lines 634-638); whether
\* egui writes a max below the new min back into the range is left open.
EditMin(v) ==
    /\ UiReady /\ is_editing
    /\ editing_config.click_mode = "RandomInterval"
    /\ 1 <= v /\ v <= 500
    /\ \E clamps \in BOOLEAN :
          editing_config' = [editing_config EXCEPT
              !.min_random_interval_ms = v,
              !.max_random_interval_ms = IF clamps /\ @ < v THEN v ELSE @]
    /\ CountEdit
    /\ tick' = NewTick
    /\ main_pc' = "poll"
    /\ UNCHANGED pattern_input
    /\ UNCHANGED formFrame
    /\ UNCHANGED uiFrame

\* The max slider of RandomInterval mode, range min..=1000, lines 634-638.
EditMax(v) ==
    /\ UiReady /\ is_editing
    /\ editing_config.click_mode = "RandomInterval"
    /\ editing_config.min_random_interval_ms <= v /\ v <= 1000
    /\ editing_config' = [editing_config EXCEPT !.max_random_interval_ms = v]
    /\ CountEdit
    /\ tick' = NewTick
    /\ main_pc' = "poll"
    /\ UNCHANGED pattern_input
    /\ UNCHANGED formFrame
    /\ UNCHANGED uiFrame

\* The sequence text field of Pattern mode, lines 640-645.
EditPattern(text) ==
    /\ UiReady /\ is_editing
    /\ editing_config.click_mode = "Pattern"
    /\ pattern_input' = text
    /\ CountEdit
    /\ tick' = NewTick
    /\ main_pc' = "poll"
    /\ UNCHANGED editing_config
    /\ UNCHANGED formFrame
    /\ UNCHANGED uiFrame

(***************************************************************************)
(* The hotkey listener thread (lines 348-366) and the Ctrl-C handler.      *)
(***************************************************************************)
listenerFrame ==
    <<proc, state, lockVars, clicker_thread, configVars, status_message,
      hotkey_active, HOTKEY_ACTIVE, main_pc, join_handle, worker, tick, now, run>>

\* listener.register_hotkey: the OS accepts the registration and the thread
\* enters listen(), or refuses it and the thread ends.
ListenerRegister(l) ==
    /\ proc = "running" /\ listener[l].pc = "spawned"
    /\ \E ok \in BOOLEAN :
          listener' = [listener EXCEPT ![l].pc = IF ok THEN "listen" ELSE "exited"]
    /\ UNCHANGED mailboxVars
    /\ UNCHANGED listenerFrame

\* Presses in flight or written since the poll last consumed a command.
Triggers ==
    pending.n + Cardinality({l \in DOMAIN listener : listener[l].pc = "callback"})

\* F8 is pressed: listen() calls the registered closure.
HotkeyPress(l) ==
    /\ proc = "running" /\ listener[l].pc = "listen"
    /\ Triggers < MaxTriggers
    /\ listener' = [listener EXCEPT ![l] =
            [pc |-> "callback", pressed_active |-> HOTKEY_ACTIVE,
             pressed_in_join |-> main_pc = "poll_join"]]
    /\ UNCHANGED mailboxVars
    /\ UNCHANGED listenerFrame

\* The closure, lines 357-361: lock the mailbox, *command = Some(true), unlock.
ListenerCallback(l) ==
    /\ proc = "running" /\ listener[l].pc = "callback"
    /\ cmd_lock = NoOwner
    /\ HOTKEY_COMMAND' = <<TRUE>>
    /\ cmd_lock' = NoOwner
    /\ pending' = [n |-> pending.n + 1,
                   active |-> pending.active \/ listener[l].pressed_active]
    /\ listener' = [listener EXCEPT ![l] = [NoListener EXCEPT !.pc = "listen"]]
    /\ UNCHANGED listenerFrame

\* The handler given to ctrlc::set_handler, lines 704-708.
CtrlC ==
    /\ proc = "running"
    /\ HOTKEY_ACTIVE' = FALSE
    /\ proc' = "exited_signal"
    /\ UNCHANGED <<state, lockVars, clicker_thread, configVars, status_message,
                   hotkey_active, listener, mailboxVars, main_pc, join_handle,
                   worker, tick>>
    /\ UNCHANGED <<now, run>>

(***************************************************************************)
(* The specification.                                                      *)
(***************************************************************************)
MainStep ==
    \/ PollEmpty \/ PollToggle \/ PollJoinDone \/ MainPanic
    \/ NoInput \/ ClickToggle \/ ControlStart \/ ControlStop \/ UiJoinDone
    \/ MenuExit \/ ExitJoinDone \/ MenuHotkey
    \/ (\E i \in 0..(Len(configs) - 1) : SelectConfig(i))
    \/ ClickDelete

\* The edit form: its widgets, and New, Edit, Save, Cancel.  It reaches the
\* engine only through apply_config, as SelectConfig and ClickDelete do, and
\* is kept out of Next.
WidgetStep ==
    \/ (\E name \in NameChoices : EditName(name))
    \/ (\E mode \in ClickMode : EditMode(mode))
    \/ (\E button \in ButtonChoices : EditButton(button))
    \/ (\E v \in FixedChoices : EditFixed(v))
    \/ (\E v \in MinChoices : EditMin(v))
    \/ (\E v \in MaxChoices : EditMax(v))
    \/ (\E text \in PatternTexts : EditPattern(text))

FormStep == ClickNew \/ ClickEdit \/ ClickSave \/ ClickCancel \/ WidgetStep

WorkerStep ==
    \E w \in Workers :
        \/ WorkerCheck(w) \/ WorkerClick(w) \/ WorkerCount(w) \/ WorkerWake(w)

ListenerStep ==
    \E l \in DOMAIN listener :
        \/ ListenerRegister(l) \/ HotkeyPress(l) \/ ListenerCallback(l)

Next == MainStep \/ WorkerStep \/ ListenerStep \/ CtrlC

Spec == Init /\ [][Next]_vars

\* The scheduler runs every thread that can run: the worker takes its steps
\* and a join returns once the joined thread has ended.
FairSpec ==
    /\ Spec
    /\ WF_vars(WorkerStep)
    /\ WF_vars(PollJoinDone)
    /\ WF_vars(UiJoinDone)
    /\ WF_vars(ExitJoinDone)

(***************************************************************************)
(* The hotkey bridge with room for a second listener thread, started       *)
(* without a configuration file: the hotkey menu, the poll, the start/stop *)
(* button and the exits.  With the default configuration no worker panics. *)
(***************************************************************************)
HotkeyInit ==
    Startup([kind |-> "missing", configs |-> <<>>], 1..MaxHotkeyListeners, <<>>)

HotkeyNext ==
    \/ PollEmpty \/ PollToggle \/ PollJoinDone
    \/ NoInput \/ ClickToggle \/ UiJoinDone
    \/ MenuHotkey \/ MenuExit \/ ExitJoinDone
    \/ WorkerStep \/ ListenerStep \/ CtrlC

HotkeySpec == HotkeyInit /\ [][HotkeyNext]_vars

(***************************************************************************)
(* The interval policy over longer runs: a file with a pattern of three    *)
(* intervals and an empty pattern, the start/stop button, the combo box    *)
(* and the worker, which may count MaxPolicyClicks clicks in a run.        *)
(***************************************************************************)
PolicyFile == [kind |-> "list", configs |-> <<PatternConfig, EmptyPatternConfig>>]

PolicyInit == Startup(PolicyFile, Listeners, <<>>)

\* The top of the loop while the run has not counted MaxPolicyClicks clicks.
PolicyWorkerCheck(w) ==
    /\ state.is_running => state.click_count < MaxPolicyClicks
    /\ WorkerTop(w)

PolicyWorkerStep ==
    \E w \in Workers :
        \/ PolicyWorkerCheck(w) \/ WorkerClick(w) \/ WorkerCount(w) \/ WorkerWake(w)

PolicyNext ==
    \/ PollEmpty \/ NoInput \/ ClickToggle \/ UiJoinDone
    \/ (\E i \in 0..(Len(configs) - 1) : SelectConfig(i))
    \/ PolicyWorkerStep

PolicySpec == PolicyInit /\ [][PolicyNext]_vars

(***************************************************************************)
(* Discrete time: the clock advances by Tick, every other step takes no    *)
(* time, and thread::sleep(delay) returns when at least `delay` has passed *)
(* since it was called.  One FixedInterval record, the start/stop button   *)
(* and the worker.                                                         *)
(***************************************************************************)
TimedFile == [kind |-> "list", configs |-> <<FastFixedConfig>>]

TimedInit == Startup(TimedFile, Listeners, <<0>>)

Tick ==
    /\ proc = "running"
    /\ now[1] < MaxTime
    /\ now' = <<now[1] + 1>>
    /\ UNCHANGED <<proc, state, lockVars, clicker_thread, configVars, status_message,
                   hotkeyVars, mailboxVars, main_pc, join_handle, worker, tick, run>>

\* WorkerWake with no wait for the clock.
TimedWorkerWake_early(w) == WorkerWake(w)

\* thread::sleep(Duration::from_millis(delay)) at line 315 returns.
TimedWorkerWake(w) ==
    /\ worker[w].pc = "sleep"
    /\ now[1] >= worker[w].wake_at[1]
    /\ WorkerWake(w)

TimedWorkerStep ==
    \E w \in Workers :
        \/ WorkerCheck(w) \/ WorkerClick(w) \/ WorkerCount(w) \/ TimedWorkerWake(w)

TimedNext ==
    \/ PollEmpty \/ NoInput \/ ClickToggle \/ UiJoinDone
    \/ TimedWorkerStep
    \/ Tick

TimedSpec == TimedInit /\ [][TimedNext]_vars

(***************************************************************************)
(* The configurations: startup from a file with an empty list, a           *)
(* RandomInterval record or a Pattern record with no intervals; the combo  *)
(* box, Delete, the edit form, the start/stop button and the worker.       *)
(***************************************************************************)
ConfigFiles ==
    {[kind |-> "list", configs |-> <<>>],
     [kind |-> "list", configs |-> <<RandomConfig>>],
     [kind |-> "list", configs |-> <<EmptyPatternConfig>>]}

ConfigInit == \E file \in ConfigFiles : Startup(file, Listeners, <<>>)

\* The top of the loop while the run has not counted MaxConfigClicks clicks.
ConfigWorkerCheck(w) ==
    /\ state.is_running => state.click_count < MaxConfigClicks
    /\ WorkerTop(w)

ConfigWorkerStep ==
    \E w \in Workers :
        \/ ConfigWorkerCheck(w) \/ WorkerClick(w) \/ WorkerCount(w) \/ WorkerWake(w)

ConfigNext ==
    \/ PollEmpty \/ NoInput \/ ClickToggle \/ UiJoinDone \/ MainPanic
    \/ (\E i \in 0..(Len(configs) - 1) : SelectConfig(i))
    \/ ClickDelete
    \/ FormStep
    \/ ConfigWorkerStep

ConfigSpec == ConfigInit /\ [][ConfigNext]_vars

(***************************************************************************)
(* The locks at a finer grain: the worker takes the ClickerState mutex in  *)
(* one step and leaves the critical section in the next, so that a state   *)
(* shows who holds the mutex.  Started without a configuration file, with  *)
(* the poll, the start/stop button, the hotkey menu and the listener.      *)
(***************************************************************************)
\* state_clone.lock().unwrap() at line 270.
WorkerLockTop(w) ==
    /\ proc = "running" /\ worker[w].pc = "top"
    /\ state_lock = NoOwner
    /\ IF state_poisoned
       THEN /\ worker' = [worker EXCEPT ![w] = Ended("panicked")]
            /\ UNCHANGED state_lock
       ELSE /\ worker' = [worker EXCEPT ![w].pc = "top_locked"]
            /\ state_lock' = WorkerOwner(w)
    /\ UNCHANGED <<state, state_poisoned, run>>
    /\ UNCHANGED workerFrame

\* The top of the loop while the run has not counted MaxClicks clicks.
LockWorkerCheck(w) ==
    /\ state.is_running => state.click_count < MaxClicks
    /\ WorkerLockTop(w)

\* The block of lines 269-297 whose guard lives until the click is counted.
WorkerSnapshot_keeps_lock(w) ==
    /\ proc = "running" /\ worker[w].pc = "top_locked"
    /\ state_lock = WorkerOwner(w)
    /\ IF ~state.is_running
       THEN /\ worker' = [worker EXCEPT ![w] = Ended("exited")]
            /\ state_lock' = NoOwner
            /\ UNCHANGED state_poisoned
       ELSE IF DelayPanics(w)
       THEN /\ worker' = [worker EXCEPT ![w] = Ended("panicked")]
            /\ state_lock' = NoOwner
            /\ state_poisoned' = TRUE
       ELSE /\ \E d \in Delays(w) :
                worker' = [worker EXCEPT ![w].pc = "click",
                                         ![w].delay = d,
                                         ![w].button = state.mouse_button,
                                         ![w].mode = state.click_mode,
                                         ![w].pattern = state.pattern_intervals]
            /\ UNCHANGED <<state_lock, state_poisoned>>
    /\ UNCHANGED <<state, run>>
    /\ UNCHANGED workerFrame

\* Lines 271-297 under the mutex: check is_running, take the snapshot; the
\* guard is dropped at the end of the block (or by the break, or the panic).
WorkerSnapshot(w) ==
    /\ proc = "running" /\ worker[w].pc = "top_locked"
    /\ state_lock = WorkerOwner(w)
    /\ IF ~state.is_running
       THEN /\ worker' = [worker EXCEPT ![w] = Ended("exited")]
            /\ UNCHANGED state_poisoned
       ELSE IF DelayPanics(w)
       THEN /\ worker' = [worker EXCEPT ![w] = Ended("panicked")]
            /\ state_poisoned' = TRUE
       ELSE /\ \E d \in Delays(w) :
                worker' = [worker EXCEPT ![w].pc = "click",
                                         ![w].delay = d,
                                         ![w].button = state.mouse_button,
                                         ![w].mode = state.click_mode,
                                         ![w].pattern = state.pattern_intervals]
            /\ UNCHANGED state_poisoned
    /\ state_lock' = NoOwner
    /\ UNCHANGED <<state, run>>
    /\ UNCHANGED workerFrame

\* state_clone.lock().unwrap() at line 304.
WorkerLockCount(w) ==
    /\ proc = "running" /\ worker[w].pc = "count"
    /\ state_lock = NoOwner
    /\ IF state_poisoned
       THEN /\ worker' = [worker EXCEPT ![w] = Ended("panicked")]
            /\ UNCHANGED state_lock
       ELSE /\ worker' = [worker EXCEPT ![w].pc = "count_locked"]
            /\ state_lock' = WorkerOwner(w)
    /\ UNCHANGED <<state, state_poisoned, run>>
    /\ UNCHANGED workerFrame

\* Lines 305-312 under the mutex: count the click, drop(state), advance the
\* cursor.
WorkerCounted(w) ==
    /\ proc = "running" /\ worker[w].pc = "count_locked"
    /\ state_lock = WorkerOwner(w)
    /\ run' = [run EXCEPT !.late_counts = IF state.is_running THEN @ ELSE @ + 1]
    /\ state' = [state EXCEPT
            !.click_count = @ + 1,
            !.last_click_time = <<state.start_time[1], state.click_count + 1>>]
    /\ worker' = [worker EXCEPT
            ![w].pc = "sleep",
            ![w].wake_at = IF now = <<>> THEN <<>>
                           ELSE <<now[1] + worker[w].delay>>,
            ![w].pattern_index =
                IF worker[w].mode = "Pattern" /\ worker[w].pattern # <<>>
                THEN (@ + 1) % Len(worker[w].pattern)
                ELSE @]
    /\ state_lock' = NoOwner
    /\ UNCHANGED state_poisoned
    /\ UNCHANGED workerFrame

LockWorkerStep ==
    \E w \in Workers :
        \/ LockWorkerCheck(w) \/ WorkerSnapshot(w) \/ WorkerClick(w)
        \/ WorkerLockCount(w) \/ WorkerCounted(w) \/ WorkerWake(w)

LockInit == Startup([kind |-> "missing", configs |-> <<>>], Listeners, <<>>)

LockNext ==
    \/ PollEmpty \/ PollToggle \/ PollJoinDone
    \/ NoInput \/ ClickToggle \/ UiJoinDone
    \/ MenuHotkey
    \/ LockWorkerStep
    \/ ListenerStep

LockSpec == LockInit /\ [][LockNext]_vars

\* The steps a thread takes by itself once it is not blocked: all of LockNext
\* but the key press, which the user makes.
ThreadStep ==
    \/ PollEmpty \/ PollToggle \/ PollJoinDone
    \/ NoInput \/ ClickToggle \/ UiJoinDone
    \/ MenuHotkey
    \/ LockWorkerStep
    \/ (\E l \in DOMAIN listener : ListenerRegister(l) \/ ListenerCallback(l))

\* The scheduler runs every thread that can run: the worker takes its steps
\* and a join returns once the joined thread has ended.  A callback blocked in
\* lock() is woken when the mailbox mutex is released, however often the main
\* thread takes that mutex again afterwards.
FairLockSpec ==
    /\ LockSpec
    /\ WF_vars(LockWorkerStep)
    /\ WF_vars(PollJoinDone)
    /\ WF_vars(UiJoinDone)
    /\ \A l \in Listeners : SF_vars(ListenerCallback(l))

\* update() asks for a repaint at its end (line 692), so the main thread runs
\* frame after frame, and its lock() gets the mutex.
MainLoop == PollEmpty \/ PollToggle \/ NoInput \/ ClickToggle \/ MenuHotkey

FairPollSpec ==
    /\ FairLockSpec
    /\ SF_vars(MainLoop)

(***************************************************************************)
(* Properties.                                                             *)
(***************************************************************************)
JoinPcs == {"poll_join", "ui_join", "exit_join"}

\* stop_clicker is not in progress and the clicker is stopped.
Stopped == ~state.is_running /\ main_pc \notin JoinPcs

\* C1: over any sequence of start, stop and toggle calls, from the widgets or
\* from the mailbox poll, at most one click worker thread is alive.
C1_AtMostOneWorker == Cardinality(AliveWorkers) <= 1

\* C1: a start was called while the worker of a second run was alive.
C1_Witness ==
    /\ tick.ui = "start" /\ tick.ran_before
    /\ state.start_time = <<1>>
    /\ Cardinality(AliveWorkers) = 1

\* C2: once a stop_clicker called while running has returned, is_running is
\* false, no worker is alive and the handle is None; click_count and
\* last_click_time then stay as they are for as long as is_running stays false.
C2_StopQuiesces ==
    /\ [](Stopped => AliveWorkers = {} /\ clicker_thread = <<>>)
    /\ [][(Stopped /\ ~state'.is_running)
            => /\ state'.click_count = state.click_count
               /\ state'.last_click_time = state.last_click_time]_vars

\* C2: a run that counted a click has been stopped and stop_clicker has returned.
C2_Witness ==
    /\ proc = "running" /\ Stopped
    /\ status_message = "stopped"
    /\ state.click_count > 0
    /\ \E w \in Workers : worker[w].pc = "exited"

\* C3: a call of start_clicker while is_running is true changes nothing: the
\* ClickerState (click_count, start_time), the worker threads, the handle and
\* the status message stay as they are.
C3_StartWhileRunningIsNoop ==
    [][(ControlStart /\ state.is_running)
        => /\ state' = state
           /\ worker' = worker
           /\ clicker_thread' = clicker_thread
           /\ status_message' = status_message]_vars

\* C3: start_clicker has been called during a run that had counted a click.
C3_Witness ==
    /\ tick.ui = "start" /\ tick.ran_before
    /\ state.is_running
    /\ state.click_count > 0
    /\ clicker_thread # <<>>

\* C4: in a tick whose poll found a command and whose start/stop button was
\* clicked, is_running changes exactly once.
C4_OneTransitionPerTick ==
    (tick.hotkey /\ tick.ui = "toggle") => tick.transitions = 1

\* C5: the runtime configuration fields of ClickerState do not change in a
\* step taken while is_running is true.
C5_ConfigFrozenWhileRunning ==
    [][state.is_running => RuntimeFields(state') = RuntimeFields(state)]_vars

\* C6: the mailbox holds a command exactly when a press was written since the
\* poll last consumed one (one poll consumes them all and leaves it empty),
\* and the poll calls toggle_clicker only when at least one press was written.
C6_MailboxCoalesces ==
    /\ main_pc # "poll_join" => ((HOTKEY_COMMAND # <<>>) <=> (pending.n > 0))
    /\ tick.hotkey => tick.triggers >= 1

\* C6: one poll has consumed two presses and left the mailbox empty.
C6_Witness ==
    /\ main_pc = "ui"
    /\ tick.hotkey /\ tick.triggers >= 2
    /\ HOTKEY_COMMAND = <<>>

\* C7: every toggle the poll makes comes from a press made while the hotkey was
\* enabled; a press made while it was disabled alone never causes one.
C7_DisabledHotkeyIgnored == tick.hotkey => tick.from_active

\* C8: when a worker has ended by a panic and no worker is alive, is_running
\* is false and the ClickerState can still be locked.
C8_NoLeakAfterPanic ==
    (AliveWorkers = {} /\ \E w \in Workers : worker[w].pc = "panicked")
        => (~state.is_running /\ ~state_poisoned)

\* C9: when the process has exited through the Ctrl-C handler, the hotkey is
\* disabled, is_running is false and no worker was left alive.
C9_SignalExitCleansUp ==
    proc = "exited_signal"
        => (~HOTKEY_ACTIVE /\ ~state.is_running /\ AliveWorkers = {})

\* C10: a stop_clicker that waits in join returns (or the process ends): the
\* worker sees is_running = false at the top of its loop and exits.
C10_StopReturns ==
    (proc = "running" /\ main_pc \in JoinPcs)
        ~> (proc # "running" \/ main_pc \notin JoinPcs)

\* C10: the worker joined by stop_clicker has left its loop by the break.
C10_Witness ==
    /\ proc = "running" /\ main_pc \in JoinPcs
    /\ join_handle # <<>>
    /\ worker[join_handle[1]].pc = "exited"

\* C13: a delay computed in RandomInterval mode lies between the
\* min_random_interval_ms and max_random_interval_ms read in the same critical
\* section.
C13_RandomDelayInRange ==
    [][\A w \in Workers :
        (WorkerCheck(w) /\ worker'[w].pc = "click"
                        /\ worker'[w].mode = "RandomInterval")
            => /\ state.min_random_interval_ms <= worker'[w].delay
               /\ worker'[w].delay <= state.max_random_interval_ms]_vars

\* C13: a worker has drawn the upper end of a range with min < max.
C13_Witness ==
    \E w \in Workers :
        /\ worker[w].pc = "click" /\ worker[w].mode = "RandomInterval"
        /\ state.min_random_interval_ms < state.max_random_interval_ms
        /\ worker[w].delay = state.max_random_interval_ms

\* The listener thread spawned last.
LatestListener(l) ==
    /\ listener[l].pc # "none"
    /\ \A k \in DOMAIN listener : k > l => listener[k].pc = "none"

\* C16: when the registration made by the last setup_hotkey was refused, the
\* hotkey is inactive (hotkey_active and HOTKEY_ACTIVE are false) and the
\* status message does not report activation.
C16_DeniedLeavesInactive ==
    \A l \in DOMAIN listener :
        (LatestListener(l) /\ listener[l].pc = "exited")
            => (~hotkey_active /\ ~HOTKEY_ACTIVE /\ status_message # "hotkey active")

\* C19: the configuration list holds at least one record, whatever file the
\* startup found.
C19_ListNeverEmpty == Len(configs) >= 1

\* C20: click_count is at most the number of clicks emitted since the most
\* recent start, and at most one behind it.
C20_CountFollowsEmission ==
    /\ state.click_count <= run.emitted
    /\ run.emitted <= state.click_count + 1

\* C20: in a run that has counted a click, the next click is emitted and not
\* yet counted.
C20_Witness ==
    /\ state.click_count >= 1
    /\ run.emitted = state.click_count + 1
    /\ \E w \in Workers : worker[w].pc = "count"

\* The listener threads that have been spawned and have not ended.
ListenerThreads ==
    {l \in DOMAIN listener : listener[l].pc \in {"spawned", "listen", "callback"}}

\* C11: over any sequence of enabling and disabling the hotkey at most one
\* listener thread exists, and hotkey_active equals HOTKEY_ACTIVE after each
\* call.
C11_OneListenerThread ==
    /\ Cardinality(ListenerThreads) <= 1
    /\ proc = "running" => hotkey_active = HOTKEY_ACTIVE

\* C14: in a run whose runtime fields have not changed, with Pattern mode and
\* a sequence of n > 0 intervals, the k-th delay the worker computes (after
\* k - 1 clicks) is pattern_intervals[(k - 1) mod n].
C14_PatternCycles ==
    [][\A w \in Workers :
        (/\ PolicyWorkerCheck(w) /\ worker'[w].pc = "click"
         /\ run.stable
         /\ state.click_mode = "Pattern" /\ state.pattern_intervals # <<>>)
            => worker'[w].delay =
                 state.pattern_intervals[(run.emitted % Len(state.pattern_intervals)) + 1]]_vars

\* C14: with [100,200,300] the worker has computed its 4th delay, equal to the 1st.
C14_Witness ==
    \E w \in Workers :
        /\ worker[w].pc = "click" /\ worker[w].mode = "Pattern"
        /\ worker[w].pattern = <<100, 200, 300>>
        /\ run.stable /\ run.emitted = 3
        /\ worker[w].delay = 100

\* C15: with Pattern mode and an empty sequence the worker computes the delay
\* 100 and goes on to click (it does not panic), and counting the click leaves
\* the pattern cursor where it was.
C15_EmptyPatternFallsBack ==
    [][\A w \in Workers :
        /\ (/\ PolicyWorkerCheck(w)
            /\ state.is_running /\ ~state_poisoned
            /\ state.click_mode = "Pattern" /\ state.pattern_intervals = <<>>)
              => (worker'[w].pc = "click" /\ worker'[w].delay = 100)
        /\ (/\ WorkerCount(w)
            /\ worker[w].mode = "Pattern" /\ worker[w].pattern = <<>>)
              => (/\ worker'[w].pc = "sleep"
                  /\ worker'[w].pattern_index = worker[w].pattern_index)]_vars

\* C15: after a click with [100,200,300] the worker has made two clicks with
\* the empty sequence; the cursor is still 1.
C15_Witness ==
    \E w \in Workers :
        /\ worker[w].pc = "sleep" /\ worker[w].mode = "Pattern"
        /\ worker[w].pattern = <<>> /\ worker[w].delay = 100
        /\ worker[w].pattern_index = 1
        /\ run.emitted >= 3

\* C17: two consecutive click emissions of which the earlier was made in
\* FixedInterval mode with interval T are at least T apart, also when a stop
\* and a start lie between them.
C17_FixedSpacing == run.gap # <<>> => run.gap[1] >= run.gap_need

\* C17: the first click of a second run is emitted exactly T = 2 after the
\* last click of the first run.
C17_Witness ==
    /\ run.gap = <<2>> /\ run.gap_need = 2
    /\ run.emitted = 1
    /\ state.start_time = <<1>>

\* C12: in every state reachable through startup loading, the edit form and
\* apply_config, the ClickerState has min_random_interval_ms <=
\* max_random_interval_ms, and a non-empty pattern_intervals whenever
\* click_mode is Pattern.
C12_TimingParametersValid ==
    /\ state.min_random_interval_ms <= state.max_random_interval_ms
    /\ state.click_mode = "Pattern" => state.pattern_intervals # <<>>

\* The steps that call apply_config.
ApplyStep ==
    \/ (\E i \in 0..(Len(configs) - 1) : SelectConfig(i))
    \/ ClickDelete
    \/ ClickSave

\* C18: apply_config(c) called while stopped makes the runtime configuration
\* fields of the ClickerState and the pattern text those of c, and leaves
\* is_running, click_count, start_time and last_click_time as they were.  c is
\* the selected record after the step: every caller applies that record.
C18_ApplyWhileStopped ==
    [][(~state.is_running /\ ApplyStep) =>
        LET c == configs'[selected_config_index' + 1]
        IN  /\ RuntimeFields(state') = RuntimeFields(c)
            /\ pattern_input' = JoinComma(c.pattern_intervals)
            /\ ParseIntervals(pattern_input') = c.pattern_intervals
            /\ state'.is_running = state.is_running
            /\ state'.click_count = state.click_count
            /\ state'.start_time = state.start_time
            /\ state'.last_click_time = state.last_click_time]_vars

\* Save has applied an edited sequence after a run that clicked has stopped.
C18_Witness ==
    /\ tick.ui = "save"
    /\ ~tick.ran_before
    /\ ~state.is_running
    /\ state.click_count > 0
    /\ state.start_time # <<>>
    /\ state.last_click_time # <<>>
    /\ state.pattern_intervals = <<7, 9>>
    /\ pattern_input = <<"7", ",", "9">>

\* C21: a worker that reads is_running = false at the top of its loop exits
\* without emitting a click or changing the ClickerState; and while is_running
\* is false, at most one click has been emitted and at most one counted since
\* stop_clicker set it to false.
C21_StopBoundsWorker ==
    [][/\ \A w \in Workers :
            (WorkerCheck(w) /\ ~state.is_running /\ ~state_poisoned)
                => /\ worker'[w].pc = "exited"
                   /\ state' = state
                   /\ run' = run
       /\ ~state'.is_running =>
            /\ run'.late_clicks <= 1
            /\ run'.late_counts <= 1]_vars

\* C21: the worker emitted and counted one click after the stop, then read
\* is_running = false and exited.
C21_Witness ==
    /\ ~state.is_running
    /\ run.late_clicks = 1 /\ run.late_counts = 1
    /\ AliveWorkers = {}
    /\ \E w \in Workers : worker[w].pc = "exited"

\* The worker is inside enigo.mouse_click (line 301) or thread::sleep (line 315).
EmittingOrSleeping(w) == worker[w].pc \in {"click", "sleep"}

\* C22: a worker that is inside the emission call or the sleep does not own the
\* ClickerState mutex; and a worker that owns it gives it up with its next
\* step, so the mutex is free again after one worker step.
C22_LockNotHeldAcrossClickOrSleep ==
    [][\A w \in Workers :
          /\ EmittingOrSleeping(w)' => state_lock' # WorkerOwner(w)
          /\ (state_lock = WorkerOwner(w) /\ worker'[w] # worker[w])
                => state_lock' = NoOwner]_vars

\* C22: the worker sleeps after a counted click while the main thread, which
\* took the mutex meanwhile to stop the run, waits in join.
C22_Witness ==
    /\ main_pc \in JoinPcs
    /\ state_lock = NoOwner
    /\ ~state.is_running
    /\ \E w \in Workers : worker[w].pc = "sleep" /\ state.click_count >= 1

\* C25: with the main thread, the worker and the listener interleaved in any
\* order, some thread can always take a step (not every thread is blocked on a
\* mutex or in join), and every wait for a mutex ends: a mutex that is held is
\* released, the callback that waits for the mailbox mutex writes its command,
\* and the worker that waits for the ClickerState mutex gets it.
C25_DeadlockFree ==
    /\ [](proc = "running" => ENABLED ThreadStep)
    /\ \A w \in Workers :
          /\ (state_lock = WorkerOwner(w)) ~> (state_lock = NoOwner)
          /\ (worker[w].pc = "count") ~> (worker[w].pc # "count")
    /\ (cmd_lock = MainOwner) ~> (cmd_lock = NoOwner)
    /\ \A l \in Listeners :
          (listener[l].pc = "callback") ~> (listener[l].pc = "listen")

\* C25: the main thread holds the mailbox mutex and waits in join, the callback
\* of a key press waits for the mailbox mutex, and the worker holds the
\* ClickerState mutex.
C25_Witness ==
    /\ main_pc = "poll_join" /\ cmd_lock = MainOwner
    /\ \E l \in Listeners : listener[l].pc = "callback"
    /\ \E w \in Workers : state_lock = WorkerOwner(w)

\* C23: whenever the worker indexes pattern_intervals with its cursor (at the
\* top of the loop, running, in Pattern mode, the sequence not empty), the
\* cursor is smaller than the length the sequence then has.
C23_CursorInBounds ==
    [][\A w \in Workers :
          (/\ WorkerCheck(w)
           /\ ~state_poisoned
           /\ state.is_running
           /\ state.click_mode = "Pattern"
           /\ state.pattern_intervals # <<>>)
              => worker[w].pattern_index < Len(state.pattern_intervals)]_vars

\* C24: every press is written into the mailbox and every press written is
\* consumed by a later poll that calls toggle_clicker; the mailbox is emptied
\* only by such a poll, and never while it holds a press the poll has not
\* consumed: a press made while the main thread is inside the poll is written
\* after the poll has emptied the mailbox.
C24_NoTriggerLost ==
    /\ \A l \in Listeners : (listener[l].pc = "callback") ~> (pending.n > 0)
    /\ (pending.n > 0) ~> (pending.n = 0)
    /\ [][/\ (pending.n > 0 /\ pending'.n = 0)
                => (tick'.hotkey /\ tick'.triggers = pending.n)
          /\ (HOTKEY_COMMAND # <<>> /\ HOTKEY_COMMAND' = <<>>)
                => (tick'.hotkey /\ pending'.n = 0)]_vars

\* C24: the poll has called toggle_clicker, joined the worker and emptied the
\* mailbox; the press made while it was doing so has yet to be written.
C24_Witness ==
    /\ main_pc = "ui"
    /\ tick.hotkey /\ tick.triggers = 1
    /\ HOTKEY_COMMAND = <<>> /\ pending.n = 0
    /\ \E l \in Listeners :
          listener[l].pc = "callback" /\ listener[l].pressed_in_join

\* C26: Save of a form opened by New appends the edited record to the list and
\* leaves the records it held as they were; Save of a form opened by Edit
\* replaces the selected record only; and after every step
\* selected_config_index is smaller than the length of the list.
C26_SaveAddsOrReplaces ==
    [][/\ ClickSave =>
            IF run.form = "new"
            THEN configs' = Append(configs, editing_config')
            ELSE /\ Len(configs') = Len(configs)
                 /\ \A i \in 1..Len(configs) :
                       configs'[i] = IF i = selected_config_index + 1
                                     THEN editing_config'
                                     ELSE configs[i]
       /\ selected_config_index' < Len(configs')]_vars

====
